---- MODULE Spec2Model ----
(***************************************************************************)
(* Flagged integer addition (circuit/types/integers/src/add_flagged.rs)    *)
(* and structural equality of plaintexts                                   *)
(* (console/program/src/data/plaintext/equal.rs).                          *)
(*                                                                         *)
(* A circuit Boolean is a record [value, mode]; a circuit Integer<E, I> is *)
(* the little-endian sequence of its I::BITS Booleans; a circuit Field is  *)
(* a record [value, mode].  The integer type I is a record [BITS, signed]. *)
(* The circuit is the 4-tuple of counters (constants, public, private,     *)
(* constraints) that every gadget appends to.                              *)
(***************************************************************************)
EXTENDS Integers, Sequences, FiniteSets, TLC

\* Integer types of every width 2..MaxBits are explored with all operands.
MaxBits == 5

\* Plaintexts of at most MaxNodes nodes (literals, structs, lists) are explored.
MaxNodes == 3

\* Widths of the supported integer types that are explored on the operands
\* run_test always adds (MIN, MAX, 0, 1, -1).
SampledWidths == {8, 16}

Modes == {"Constant", "Public", "Private"}

RECURSIVE Pow2(_)
Pow2(n) == IF n = 0 THEN 1 ELSE 2 * Pow2(n - 1)

IntegerTypes == [BITS : (2..MaxBits) \cup SampledWidths, signed : BOOLEAN]

\* I::MIN and I::MAX.
MIN(I) == IF I.signed THEN -Pow2(I.BITS - 1) ELSE 0
MAX(I) == IF I.signed THEN Pow2(I.BITS - 1) - 1 ELSE Pow2(I.BITS) - 1

\* The operands the tests draw for type I.
Operands(I) ==
  IF I.BITS <= MaxBits
    THEN MIN(I)..MAX(I)
    ELSE {MIN(I), MAX(I), 0, 1} \cup (IF I.signed THEN {-1} ELSE {})

(***************************************************************************)
(* Native integers.                                                        *)
(***************************************************************************)

\* The native wrapping addition with its overflow flag.
overflowing_add(I, x, y) ==
  LET s == x + y IN
  IF s > MAX(I) THEN <<s - Pow2(I.BITS), TRUE>>
  ELSE IF s < MIN(I) THEN <<s + Pow2(I.BITS), TRUE>>
  ELSE <<s, FALSE>>

\* The two's complement bits of a native integer, least significant first.
to_bits_le(I, x) ==
  LET u == IF x < 0 THEN x + Pow2(I.BITS) ELSE x
  IN  [i \in 1..I.BITS |-> (u \div Pow2(i - 1)) % 2 = 1]

RECURSIVE BitsValue(_)
\* The natural number a little-endian sequence of circuit Booleans encodes.
BitsValue(bits) ==
  IF Len(bits) = 0 THEN 0
  ELSE (IF Head(bits).value THEN 1 ELSE 0) + 2 * BitsValue(Tail(bits))

(***************************************************************************)
(* The circuit environment: counters and the gadgets add_flagged calls.    *)
(***************************************************************************)

Count(c, pu, pr, cs) ==
  [constants |-> c, public |-> pu, private |-> pr, constraints |-> cs]

ZeroCount == Count(0, 0, 0, 0)

Plus(x, y) ==
  Count(x.constants + y.constants, x.public + y.public,
        x.private + y.private, x.constraints + y.constraints)

Boolean(mode, value) == [value |-> value, mode |-> mode]

\* Integer::new(mode, value): one Boolean of that mode per bit.
IntegerNew(I, mode, x) ==
  LET bits == to_bits_le(I, x)
  IN  [i \in 1..I.BITS |-> Boolean(mode, bits[i])]

\* What Integer::new adds to the circuit: a constant per bit, or a variable
\* and a booleanity constraint per bit.
IntegerNewCount(I, mode) ==
  CASE mode = "Constant" -> Count(I.BITS, 0, 0, 0)
    [] mode = "Public"   -> Count(0, I.BITS, 0, I.BITS)
    [] mode = "Private"  -> Count(0, 0, I.BITS, I.BITS)

\* The native value of a circuit integer.
eject_value(I, int) ==
  LET u == BitsValue(int)
  IN  IF I.signed /\ u >= Pow2(I.BITS - 1) THEN u - Pow2(I.BITS) ELSE u

\* The mode of a circuit integer: the mode its bits share, Private if mixed.
eject_mode(int) ==
  IF \A i \in 1..Len(int) : int[i].mode = "Constant" THEN "Constant"
  ELSE IF \A i \in 1..Len(int) : int[i].mode = "Public" THEN "Public"
  ELSE "Private"

is_constant(int) == eject_mode(int) = "Constant"

\* Integer::to_field: the bits packed into one field element (no constraint).
to_field(int) == [value |-> BitsValue(int), mode |-> eject_mode(int)]

\* Field addition: a linear combination, no constraint.  The field is larger
\* than 2^(I::BITS + 1), so the sum of two packed integers never wraps.
FieldAdd(x, y) ==
  [value |-> x.value + y.value,
   mode  |-> IF x.mode = "Constant" /\ y.mode = "Constant"
               THEN "Constant" ELSE "Private"]

\* Field::to_lower_bits_le(k): the k low bits of the field element.
to_lower_bits_le(f, k) ==
  [i \in 1..k |->
     Boolean(IF f.mode = "Constant" THEN "Constant" ELSE "Private",
             (f.value \div Pow2(i - 1)) % 2 = 1)]

\* Its cost: a private bit with a booleanity constraint per extracted bit,
\* and one constraint that the bits recompose the field element.
to_lower_bits_le_count(f, k) ==
  IF f.mode = "Constant" THEN Count(k, 0, 0, 0) ELSE Count(0, 0, k, k + 1)

\* Integer::msb: the most significant bit.
msb(int) == int[Len(int)]

\* Boolean::is_not_equal (XOR).  With a constant operand the result is the
\* other operand or its negation, and nothing is added to the circuit.
BooleanNotEqual(x, y) ==
  Boolean(IF x.mode = "Constant" THEN y.mode
          ELSE IF y.mode = "Constant" THEN x.mode ELSE "Private",
          x.value # y.value)

\* Boolean::is_equal: the negation of XOR.
BooleanEqual(x, y) ==
  LET n == BooleanNotEqual(x, y) IN Boolean(n.mode, ~n.value)

BooleanCompareCount(x, y) ==
  IF x.mode = "Constant" \/ y.mode = "Constant"
    THEN ZeroCount ELSE Count(0, 0, 1, 1)

\* Boolean & Boolean.  With a constant operand the result is the other
\* operand or the constant false, and nothing is added to the circuit.
BooleanAnd(x, y) ==
  IF x.mode = "Constant" THEN (IF x.value THEN y ELSE Boolean("Constant", FALSE))
  ELSE IF y.mode = "Constant" THEN (IF y.value THEN x ELSE Boolean("Constant", FALSE))
  ELSE Boolean("Private", x.value /\ y.value)

BooleanAndCount(x, y) ==
  IF x.mode = "Constant" \/ y.mode = "Constant"
    THEN ZeroCount ELSE Count(0, 0, 1, 1)

(***************************************************************************)
(* add_flagged.                                                            *)
(***************************************************************************)

\* The constant branch: witness!(|self, other| self.overflowing_add(other)),
\* a constant integer and a constant Boolean.
add_flagged_constant(I, self, other) ==
  LET r == overflowing_add(I, eject_value(I, self), eject_value(I, other))
  IN  [sum    |-> IntegerNew(I, "Constant", r[1]),
       flag   |-> Boolean("Constant", r[2]),
       carry  |-> Boolean("Constant", r[2]),
       path   |-> "native",
       halted |-> FALSE,
       count  |-> Count(I.BITS + 1, 0, 0, 0)]

\* The field sum of the operands and its I::BITS + 1 low bits.
sum_bits_le(I, self, other) ==
  to_lower_bits_le(FieldAdd(to_field(self), to_field(other)), I.BITS + 1)

sum_bits_le_count(I, self, other) ==
  to_lower_bits_le_count(FieldAdd(to_field(self), to_field(other)), I.BITS + 1)

\* A mutant of signed_overflow: the operands' signs are not compared.
signed_overflow_any_sign(self, other, sum) ==
  BooleanNotEqual(msb(sum), msb(self))

\* Signed overflow: the operands have the same sign and the sum has the other.
signed_overflow(self, other, sum) ==
  LET is_same_sign == BooleanEqual(msb(self), msb(other))
  IN  BooleanAnd(is_same_sign, BooleanNotEqual(msb(sum), msb(self)))

signed_overflow_count(self, other, sum) ==
  LET is_same_sign == BooleanEqual(msb(self), msb(other))
      differs == BooleanNotEqual(msb(sum), msb(self))
  IN  Plus(BooleanCompareCount(msb(self), msb(other)),
           Plus(BooleanCompareCount(msb(sum), msb(self)),
                BooleanAndCount(is_same_sign, differs)))

\* A mutant of is_overflow: the unsigned flag is the sum's top bit.
is_overflow_top_bit(I, self, other, sum, carry) ==
  IF I.signed THEN signed_overflow(self, other, sum) ELSE msb(sum)

\* A mutant of is_overflow: the signed flag is the carry bit.
is_overflow_carry(I, self, other, sum, carry) == carry

\* The overflow flag of the branch taken when an operand is not constant.
is_overflow(I, self, other, sum, carry) ==
  IF I.signed THEN signed_overflow(self, other, sum) ELSE carry

\* The branch taken when an operand is not constant.
add_flagged_field(I, self, other) ==
  LET bits  == sum_bits_le(I, self, other)
      \* split_last: the carry is the last bit, the sum the bits before it.
      sum   == SubSeq(bits, 1, Len(bits) - 1)
      carry == bits[Len(bits)]
  IN  IF Len(bits) = 0
        THEN [sum |-> <<>>, flag |-> Boolean("Constant", FALSE),
              carry |-> Boolean("Constant", FALSE), path |-> "field",
              halted |-> TRUE, count |-> ZeroCount]
        ELSE [sum    |-> sum,
              flag   |-> is_overflow(I, self, other, sum, carry),
              carry  |-> carry,
              path   |-> "field",
              halted |-> FALSE,
              count  |-> IF I.signed
                           THEN Plus(sum_bits_le_count(I, self, other),
                                     signed_overflow_count(self, other, sum))
                           ELSE sum_bits_le_count(I, self, other)]

\* A mutant of add_flagged: the native branch is taken when self is constant.
add_flagged_self_constant(I, self, other) ==
  IF is_constant(self)
    THEN add_flagged_constant(I, self, other)
    ELSE add_flagged_field(I, self, other)

add_flagged(I, self, other) ==
  IF is_constant(self) /\ is_constant(other)
    THEN add_flagged_constant(I, self, other)
    ELSE add_flagged_field(I, self, other)

\* A mutant of count: the signed (non-constant, Constant) row is missing.
count_no_row(I, case) ==
  IF I.signed
    THEN CASE case[1] = "Constant" /\ case[2] = "Constant" -> Count(I.BITS + 1, 0, 0, 0)
           [] case[1] = "Constant" /\ case[2] # "Constant" -> Count(0, 0, I.BITS + 2, I.BITS + 3)
           [] OTHER -> Count(0, 0, I.BITS + 4, I.BITS + 5)
    ELSE CASE case[1] = "Constant" /\ case[2] = "Constant" -> Count(I.BITS + 1, 0, 0, 0)
           [] OTHER -> Count(0, 0, I.BITS + 1, I.BITS + 2)

\* Metrics::count for AddFlagged.
count(I, case) ==
  IF I.signed
    THEN CASE case[1] = "Constant" /\ case[2] = "Constant" -> Count(I.BITS + 1, 0, 0, 0)
           [] case[1] = "Constant" /\ case[2] # "Constant" -> Count(0, 0, I.BITS + 2, I.BITS + 3)
           [] case[1] # "Constant" /\ case[2] = "Constant" -> Count(0, 0, I.BITS + 3, I.BITS + 4)
           [] OTHER -> Count(0, 0, I.BITS + 4, I.BITS + 5)
    ELSE CASE case[1] = "Constant" /\ case[2] = "Constant" -> Count(I.BITS + 1, 0, 0, 0)
           [] OTHER -> Count(0, 0, I.BITS + 1, I.BITS + 2)

\* A mutant of output_mode: two Public operands give a Public sum.
output_mode_public(case) ==
  IF case[1] = "Constant" /\ case[2] = "Constant" THEN "Constant"
  ELSE IF case[1] = "Public" /\ case[2] = "Public" THEN "Public"
  ELSE "Private"

\* OutputMode::output_mode for AddFlagged.
output_mode(case) ==
  IF case[1] = "Constant" /\ case[2] = "Constant" THEN "Constant" ELSE "Private"

(***************************************************************************)
(* Plaintexts.  A plaintext is <<"Literal", l>>, <<"Struct", members>> or  *)
(* <<"List", elements>>; a literal l is <<variant, value>>; the members of *)
(* a struct are an ordered sequence of <<name, plaintext>> with distinct   *)
(* names.  A console Boolean is its value.                                 *)
(***************************************************************************)

Literal(l) == <<"Literal", l>>
Struct(members) == <<"Struct", members>>
List(elements) == <<"List", elements>>

Literals == {<<"boolean", 1>>, <<"boolean", 0>>, <<"field", 1>>}
Names == {"a", "b"}

RECURSIVE PlaintextsOfSize(_), ElementsOfSize(_), MembersOfSize(_, _)
\* The plaintexts of exactly n nodes.
PlaintextsOfSize(n) ==
  (IF n = 1 THEN {Literal(l) : l \in Literals} ELSE {})
    \cup {List(e) : e \in ElementsOfSize(n - 1)}
    \cup {Struct(m) : m \in MembersOfSize(n - 1, Names)}

\* The sequences of plaintexts of t nodes in total.
ElementsOfSize(t) ==
  IF t = 0 THEN {<<>>}
  ELSE UNION {{<<x>> \o r : x \in PlaintextsOfSize(s), r \in ElementsOfSize(t - s)} :
                s \in 1..t}

\* The sequences of named members of t nodes in total, names drawn from names.
MembersOfSize(t, names) ==
  IF t = 0 THEN {<<>>}
  ELSE UNION {UNION {{<< <<nm, x>> >> \o r :
                        x \in PlaintextsOfSize(s),
                        r \in MembersOfSize(t - s, names \ {nm})} : s \in 1..t} :
                nm \in names}

\* sample_plaintext and sample_mismatched_plaintext of the tests.
sample_inner ==
  Struct(<< <<"e", Literal(<<"boolean", 1>>)>>,
            <<"f", Literal(<<"field", 123456789>>)>>,
            <<"g", Literal(<<"group", 0>>)>> >>)

sample_plaintext ==
  Struct(<< <<"a", Literal(<<"boolean", 1>>)>>,
            <<"b", Literal(<<"field", 123456789>>)>>,
            <<"c", Literal(<<"group", 0>>)>>,
            <<"d", sample_inner>> >>)

sample_mismatched_plaintext ==
  Struct(<< <<"a", Literal(<<"boolean", 0>>)>>,
            <<"b", Literal(<<"field", 123456789>>)>>,
            <<"c", Literal(<<"group", 0>>)>>,
            <<"d", sample_inner>> >>)

Plaintexts ==
  UNION {PlaintextsOfSize(n) : n \in 1..MaxNodes}
    \cup {sample_plaintext, sample_mismatched_plaintext}

\* The outcome of a comparison: its Boolean, how many literal and name
\* comparisons it made, and whether it panicked.
Outcome(value, compared, halted) ==
  [value |-> value, compared |-> compared, halted |-> halted]

\* Literal::is_equal / is_not_equal: equal variants and equal values.
LiteralEqual(x, y) == x[1] = y[1] /\ x[2] = y[2]
LiteralNotEqual(x, y) == x[1] # y[1] \/ x[2] # y[2]

RECURSIVE is_equal(_, _), StructEqual(_, _, _), ListEqual(_, _, _)
RECURSIVE StructEqualValuesOnly(_, _, _)
\* A mutant of StructEqual: the member names are not compared.
StructEqualValuesOnly(ma, mb, equal_) ==
  IF Len(ma) = 0 /\ Len(mb) = 0 THEN equal_
  ELSE IF Len(ma) = 0 \/ Len(mb) = 0
    THEN Outcome(equal_.value, equal_.compared, TRUE)
  ELSE LET member == is_equal(Head(ma)[2], Head(mb)[2])
       IN  StructEqualValuesOnly(Tail(ma), Tail(mb),
             Outcome(equal_.value /\ member.value,
                     equal_.compared + member.compared,
                     equal_.halted \/ member.halted))

\* The loop of is_equal over a.iter().zip_eq(b.iter()) of two structs;
\* zip_eq panics when one side ends before the other.
StructEqual(ma, mb, equal_) ==
  IF Len(ma) = 0 /\ Len(mb) = 0 THEN equal_
  ELSE IF Len(ma) = 0 \/ Len(mb) = 0
    THEN Outcome(equal_.value, equal_.compared, TRUE)
  ELSE LET member == is_equal(Head(ma)[2], Head(mb)[2])
       IN  StructEqual(Tail(ma), Tail(mb),
             Outcome(equal_.value /\ Head(ma)[1] = Head(mb)[1] /\ member.value,
                     equal_.compared + 1 + member.compared,
                     equal_.halted \/ member.halted))

\* The loop of is_equal over two lists.
ListEqual(ea, eb, equal_) ==
  IF Len(ea) = 0 /\ Len(eb) = 0 THEN equal_
  ELSE IF Len(ea) = 0 \/ Len(eb) = 0
    THEN Outcome(equal_.value, equal_.compared, TRUE)
  ELSE LET element == is_equal(Head(ea), Head(eb))
       IN  ListEqual(Tail(ea), Tail(eb),
             Outcome(equal_.value /\ element.value,
                     equal_.compared + element.compared,
                     equal_.halted \/ element.halted))

\* A mutant of is_equal: the member counts are not compared first.
is_equal_unguarded(self, other) ==
  CASE self[1] = "Literal" /\ other[1] = "Literal" ->
         Outcome(LiteralEqual(self[2], other[2]), 1, FALSE)
    [] self[1] = "Struct" /\ other[1] = "Struct" ->
         StructEqual(self[2], other[2], Outcome(TRUE, 0, FALSE))
    [] self[1] = "List" /\ other[1] = "List" ->
         ListEqual(self[2], other[2], Outcome(TRUE, 0, FALSE))
    [] OTHER -> Outcome(FALSE, 0, FALSE)

is_equal(self, other) ==
  CASE self[1] = "Literal" /\ other[1] = "Literal" ->
         Outcome(LiteralEqual(self[2], other[2]), 1, FALSE)
    [] self[1] = "Struct" /\ other[1] = "Struct" ->
         IF Len(self[2]) = Len(other[2])
           THEN StructEqual(self[2], other[2], Outcome(TRUE, 0, FALSE))
           ELSE Outcome(FALSE, 0, FALSE)
    [] self[1] = "List" /\ other[1] = "List" ->
         IF Len(self[2]) = Len(other[2])
           THEN ListEqual(self[2], other[2], Outcome(TRUE, 0, FALSE))
           ELSE Outcome(FALSE, 0, FALSE)
    [] OTHER -> Outcome(FALSE, 0, FALSE)

RECURSIVE is_not_equal(_, _), StructNotEqual(_, _, _), ListNotEqual(_, _, _)
RECURSIVE StructNotEqualValuesOnly(_, _, _)
\* A mutant of StructNotEqual: the member names are not compared.
StructNotEqualValuesOnly(ma, mb, not_equal_) ==
  IF Len(ma) = 0 /\ Len(mb) = 0 THEN not_equal_
  ELSE IF Len(ma) = 0 \/ Len(mb) = 0
    THEN Outcome(not_equal_.value, not_equal_.compared, TRUE)
  ELSE LET member == is_not_equal(Head(ma)[2], Head(mb)[2])
       IN  StructNotEqualValuesOnly(Tail(ma), Tail(mb),
             Outcome(not_equal_.value \/ member.value,
                     not_equal_.compared + member.compared,
                     not_equal_.halted \/ member.halted))

\* The loop of is_not_equal over two structs.
StructNotEqual(ma, mb, not_equal_) ==
  IF Len(ma) = 0 /\ Len(mb) = 0 THEN not_equal_
  ELSE IF Len(ma) = 0 \/ Len(mb) = 0
    THEN Outcome(not_equal_.value, not_equal_.compared, TRUE)
  ELSE LET member == is_not_equal(Head(ma)[2], Head(mb)[2])
       IN  StructNotEqual(Tail(ma), Tail(mb),
             Outcome(not_equal_.value \/ Head(ma)[1] # Head(mb)[1] \/ member.value,
                     not_equal_.compared + 1 + member.compared,
                     not_equal_.halted \/ member.halted))

\* The loop of is_not_equal over two lists.
ListNotEqual(ea, eb, not_equal_) ==
  IF Len(ea) = 0 /\ Len(eb) = 0 THEN not_equal_
  ELSE IF Len(ea) = 0 \/ Len(eb) = 0
    THEN Outcome(not_equal_.value, not_equal_.compared, TRUE)
  ELSE LET element == is_not_equal(Head(ea), Head(eb))
       IN  ListNotEqual(Tail(ea), Tail(eb),
             Outcome(not_equal_.value \/ element.value,
                     not_equal_.compared + element.compared,
                     not_equal_.halted \/ element.halted))

is_not_equal(self, other) ==
  CASE self[1] = "Literal" /\ other[1] = "Literal" ->
         Outcome(LiteralNotEqual(self[2], other[2]), 1, FALSE)
    [] self[1] = "Struct" /\ other[1] = "Struct" ->
         IF Len(self[2]) = Len(other[2])
           THEN StructNotEqual(self[2], other[2], Outcome(FALSE, 0, FALSE))
           ELSE Outcome(TRUE, 0, FALSE)
    [] self[1] = "List" /\ other[1] = "List" ->
         IF Len(self[2]) = Len(other[2])
           THEN ListNotEqual(self[2], other[2], Outcome(FALSE, 0, FALSE))
           ELSE Outcome(TRUE, 0, FALSE)
    [] OTHER -> Outcome(TRUE, 0, FALSE)


(***************************************************************************)
(* State.                                                                  *)
(***************************************************************************)
VARIABLES
  pc,         \* position of check_add: "idle", "scope" or "checked"
  case,       \* [I, first, second, mode_a, mode_b] of the running check_add
  a, b,       \* the circuit integers check_add allocated
  expected,   \* first.overflowing_add(second)
  candidate,  \* what a.add_flagged(b) returned
  metrics,    \* the count and output_mode check_add compares the circuit with
  circuit,    \* the circuit's counters since the last Circuit::reset
  scope,      \* the counters of the scope add_flagged ran in
  plain_a, plain_b,  \* the plaintexts under comparison
  equal,      \* the outcome of plain_a.is_equal(plain_b)
  not_equal   \* the outcome of plain_a.is_not_equal(plain_b)

vars == <<pc, case, a, b, expected, candidate, metrics, circuit, scope,
          plain_a, plain_b, equal, not_equal>>

int_vars == <<pc, case, a, b, expected, candidate, metrics, circuit, scope>>
plain_vars == <<plain_a, plain_b, equal, not_equal>>

None == <<>>

IntInit ==
  /\ pc = "idle"
  /\ case = None
  /\ a = None
  /\ b = None
  /\ expected = None
  /\ candidate = None
  /\ metrics = None
  /\ circuit = ZeroCount
  /\ scope = ZeroCount

Init ==
  /\ IntInit
  /\ plain_a = None
  /\ plain_b = None
  /\ equal = None
  /\ not_equal = None

\* check_add up to the scope: allocate both operands, compute the reference.
CheckAddNew ==
  /\ pc = "idle"
  /\ \E I \in IntegerTypes : \E first, second \in Operands(I) :
       \E mode_a, mode_b \in Modes :
         /\ case' = [I |-> I, first |-> first, second |-> second,
                     mode_a |-> mode_a, mode_b |-> mode_b]
         /\ a' = IntegerNew(I, mode_a, first)
         /\ b' = IntegerNew(I, mode_b, second)
         /\ expected' = overflowing_add(I, first, second)
         /\ circuit' = Plus(circuit, Plus(IntegerNewCount(I, mode_a),
                                          IntegerNewCount(I, mode_b)))
  /\ pc' = "scope"
  /\ UNCHANGED <<candidate, metrics, scope, plain_vars>>

\* The scope of check_add: run the gadget, its cost lands in the scope; a
\* halt aborts the construction.
CheckAddScope ==
  /\ pc = "scope"
  /\ candidate' = add_flagged(case.I, a, b)
  /\ pc' = IF candidate'.halted THEN "halted" ELSE "checked"
  /\ metrics' = [count |-> count(case.I, <<case.mode_a, case.mode_b>>),
                 output_mode |-> output_mode(<<case.mode_a, case.mode_b>>)]
  /\ scope' = candidate'.count
  /\ circuit' = Plus(circuit, candidate'.count)
  /\ UNCHANGED <<case, a, b, expected, plain_vars>>

\* Circuit::reset at the end of check_add: every circuit value is discarded.
CircuitReset ==
  /\ pc = "checked"
  /\ pc' = "idle"
  /\ case' = None
  /\ a' = None
  /\ b' = None
  /\ expected' = None
  /\ candidate' = None
  /\ metrics' = None
  /\ circuit' = ZeroCount
  /\ scope' = ZeroCount
  /\ UNCHANGED plain_vars

Next ==
  \/ CheckAddNew
  \/ CheckAddScope
  \/ CircuitReset

Spec == Init /\ [][Next]_vars

(***************************************************************************)
(* The comparison of two plaintexts.                                       *)
(***************************************************************************)

PlaintextInit ==
  /\ IntInit
  /\ plain_a \in Plaintexts
  /\ plain_b \in Plaintexts
  /\ equal = None
  /\ not_equal = None

IsEqual ==
  /\ equal = None
  /\ equal' = is_equal(plain_a, plain_b)
  /\ UNCHANGED <<plain_a, plain_b, not_equal, int_vars>>

IsNotEqual ==
  /\ not_equal = None
  /\ not_equal' = is_not_equal(plain_a, plain_b)
  /\ UNCHANGED <<plain_a, plain_b, equal, int_vars>>

PlaintextNext == IsEqual \/ IsNotEqual

PlaintextSpec == PlaintextInit /\ [][PlaintextNext]_vars

(***************************************************************************)
(* Properties of add_flagged, checked under Spec.                          *)
(***************************************************************************)

Checked == pc = "checked"

\* The bit pattern of a native operand, as a natural number.
Unsigned(I, x) == IF x < 0 THEN x + Pow2(I.BITS) ELSE x

ModePair == <<case.mode_a, case.mode_b>>

\* C1: for every width, signedness, operand pair and mode pair, add_flagged
\* returns the native wraparound sum (first + second mod 2^BITS, read in the
\* operands' signedness) and the native overflow flag.
C1_AddFlaggedIsNativeSum ==
  Checked =>
    /\ eject_value(case.I, candidate.sum) = expected[1]
    /\ candidate.flag.value = expected[2]
    /\ BitsValue(candidate.sum)
         = (Unsigned(case.I, case.first) + Unsigned(case.I, case.second)) % Pow2(case.I.BITS)
    /\ candidate.flag.value
         = (case.first + case.second \notin MIN(case.I)..MAX(case.I))

\* C1 happens: a signed addition of a Public and a Private operand overflowed
\* on the field path.
C1_Witness ==
  /\ Checked
  /\ candidate.path = "field"
  /\ case.I.signed
  /\ ModePair = <<"Public", "Private">>
  /\ candidate.flag.value
  /\ case.first > 1

\* C2: with the mode pair fixed on the argument positions, add_flagged of the
\* swapped operands returns the same sum value and the same flag value.
C2_Commutative ==
  Checked =>
    LET swapped == add_flagged(case.I,
                               IntegerNew(case.I, case.mode_a, case.second),
                               IntegerNew(case.I, case.mode_b, case.first))
    IN  /\ eject_value(case.I, swapped.sum) = eject_value(case.I, candidate.sum)
        /\ swapped.flag.value = candidate.flag.value

\* C2 happens: two different operands of opposite sign, one of them constant.
C2_Witness ==
  /\ Checked
  /\ case.I.signed
  /\ case.first < 0
  /\ case.second > 0
  /\ ModePair = <<"Constant", "Private">>

\* C6: the mode of the sum is Constant exactly when both operands are
\* Constant and Private otherwise, whatever the operands' values, and it is
\* what output_mode returns for the mode pair.
C6_OutputMode ==
  Checked =>
    /\ eject_mode(candidate.sum) = metrics.output_mode
    /\ eject_mode(candidate.sum)
         = (IF case.mode_a = "Constant" /\ case.mode_b = "Constant"
              THEN "Constant" ELSE "Private")

\* C6 happens: two Public operands gave a Private sum.
C6_Witness ==
  /\ Checked
  /\ ModePair = <<"Public", "Public">>
  /\ eject_mode(candidate.sum) = "Private"

\* The table of costs as a function of the mode pair, the width and the
\* signedness.
ClosedFormCount(I, mode_a, mode_b) ==
  LET W == I.BITS
      const_a == mode_a = "Constant"
      const_b == mode_b = "Constant"
  IN  IF const_a /\ const_b THEN Count(W + 1, 0, 0, 0)
      ELSE IF ~I.signed THEN Count(0, 0, W + 1, W + 2)
      ELSE IF const_a THEN Count(0, 0, W + 2, W + 3)
      ELSE IF const_b THEN Count(0, 0, W + 3, W + 4)
      ELSE Count(0, 0, W + 4, W + 5)

\* C7: count(mode_a, mode_b) is the closed form: (W+1, 0, 0, 0) for two
\* constants, (0, 0, W+1, W+2) for unsigned otherwise, and for signed
\* (0, 0, W+2, W+3), (0, 0, W+3, W+4), (0, 0, W+4, W+5) as the first, the
\* second or no operand is constant; Public and Private cost the same.
C7_CountClosedForm ==
  Checked => metrics.count = ClosedFormCount(case.I, case.mode_a, case.mode_b)

\* C7 happens: the count of a signed (Public, Constant) addition was reported.
C7_Witness ==
  /\ Checked
  /\ case.I.signed
  /\ ModePair = <<"Public", "Constant">>
  /\ metrics.count.private = case.I.BITS + 3

\* C8: what one execution of add_flagged adds to the circuit is exactly the
\* reported count, whatever the operands; two constants add no constraint.
C8_CostExact ==
  Checked =>
    /\ scope = metrics.count
    /\ (case.mode_a = "Constant" /\ case.mode_b = "Constant"
          => scope.constraints = 0)

\* C8 happens: a signed addition with a constant first operand ran at width 16.
C8_Witness ==
  /\ Checked
  /\ case.I = [BITS |-> 16, signed |-> TRUE]
  /\ ModePair = <<"Constant", "Public">>
  /\ scope.constraints = 19

\* The operands are x and y, in either order.
OperandsAre(x, y) ==
  \/ case.first = x /\ case.second = y
  \/ case.first = y /\ case.second = x

\* C9: for every mode pair and either operand order, unsigned MAX + 1 is 0
\* with the flag, signed MAX + 1 is MIN with the flag, and signed MIN + (-1)
\* is MAX with the flag.
C9_Boundaries ==
  Checked =>
    /\ (OperandsAre(MAX(case.I), 1) =>
          /\ eject_value(case.I, candidate.sum) = MIN(case.I)
          /\ candidate.flag.value)
    /\ (case.I.signed /\ OperandsAre(MIN(case.I), -1) =>
          /\ eject_value(case.I, candidate.sum) = MAX(case.I)
          /\ candidate.flag.value)

\* C9 happens: unsigned 1 + MAX ran on the field path at width 8.
C9_Witness ==
  /\ Checked
  /\ case.I = [BITS |-> 8, signed |-> FALSE]
  /\ case.first = 1
  /\ case.second = 255
  /\ candidate.path = "field"
  /\ eject_value(case.I, candidate.sum) = 0

\* C10: on the field path the signed flag is true exactly when the operands
\* have the same sign bit and the sum's sign bit differs from it, so it is
\* false for operands of different signs whatever the carry bit is; the
\* unsigned flag is the carry bit, true exactly when a + b >= 2^BITS.
C10_FlagRule ==
  (Checked /\ candidate.path = "field") =>
    LET W     == case.I.BITS
        ua    == Unsigned(case.I, case.first)
        ub    == Unsigned(case.I, case.second)
        neg_a == ua >= Pow2(W - 1)
        neg_b == ub >= Pow2(W - 1)
        neg_s == ((ua + ub) % Pow2(W)) >= Pow2(W - 1)
    IN  /\ candidate.carry.value = (ua + ub >= Pow2(W))
        /\ case.I.signed =>
             /\ candidate.flag.value = (neg_a = neg_b /\ neg_s # neg_a)
             /\ (neg_a # neg_b => ~candidate.flag.value)
        /\ ~case.I.signed => candidate.flag = candidate.carry

\* C10 happens: signed operands of different signs set the carry bit and
\* the flag stayed false.
C10_Witness ==
  /\ Checked
  /\ candidate.path = "field"
  /\ case.I.signed
  /\ case.first < 0
  /\ case.second > 0
  /\ candidate.carry.value
  /\ ~candidate.flag.value

(***************************************************************************)
(* Properties of is_equal and is_not_equal, checked under PlaintextSpec.   *)
(***************************************************************************)

\* C3: for every pair of plaintexts, is_equal is the negation of
\* is_not_equal.
C3_Duality ==
  (equal # None /\ not_equal # None) => equal.value = ~not_equal.value

\* C3 happens: both were computed for two structs of the same member count
\* that differ in a member name only.
C3_Witness ==
  /\ equal # None
  /\ not_equal # None
  /\ plain_a = Struct(<< <<"a", Literal(<<"boolean", 1>>)>> >>)
  /\ plain_b = Struct(<< <<"b", Literal(<<"boolean", 1>>)>> >>)
  /\ not_equal.value

\* C4: is_equal is true exactly when the plaintexts are structurally
\* identical: the same variant, the same member count, the same names and
\* recursively equal values at every index.
C4_EqualIffIdentical ==
  equal # None => (equal.value <=> plain_a = plain_b)

\* C4 happens: the two members of a struct were permuted and is_equal is
\* false.
C4_Witness ==
  /\ equal # None
  /\ plain_a = Struct(<< <<"a", Literal(<<"boolean", 1>>)>>,
                         <<"b", Literal(<<"boolean", 1>>)>> >>)
  /\ plain_b = Struct(<< <<"b", Literal(<<"boolean", 1>>)>>,
                         <<"a", Literal(<<"boolean", 1>>)>> >>)
  /\ ~equal.value

\* Two plaintexts of different variants, or two structs or two lists of
\* different member counts.
ShapeMismatch(x, y) ==
  \/ x[1] # y[1]
  \/ x[1] \in {"Struct", "List"} /\ Len(x[2]) # Len(y[2])

\* C5: on a shape mismatch is_equal is false and is_not_equal is true, with
\* no member name or value compared and without a halt.
C5_ShapeMismatch ==
  ShapeMismatch(plain_a, plain_b) =>
    /\ equal # None => equal = Outcome(FALSE, 0, FALSE)
    /\ not_equal # None => not_equal = Outcome(TRUE, 0, FALSE)

\* C5 happens: a list of two elements was compared with a list of one.
C5_Witness ==
  /\ equal # None
  /\ not_equal # None
  /\ plain_a[1] = "List"
  /\ plain_b[1] = "List"
  /\ Len(plain_a[2]) = 2
  /\ Len(plain_b[2]) = 1

====
